---- MODULE Spec2Model ----
(***************************************************************************)
(* Health & Workout Tracker (src/app.py): the two CSV-backed tables, the   *)
(* page runs that load, append to, import and summarise them.              *)
(*                                                                         *)
(* A page run is one execution of the script: the module-level load        *)
(* (lines 42-46), then the branch of the selected page.  The in-memory     *)
(* tables are locals of the run; the two files are the only shared state.  *)
(*                                                                         *)
(* Values.  A CSV cell and a pandas value are both records [k, d, t]:      *)
(*   text cells   t_empty ""            t_num   "135.0"    t_word "Bench"  *)
(*                t_date  "YYYY-MM-DD"  t_datetime "YYYY-MM-DD HH:MM:SS"   *)
(*   values       None, NaN, NaT (the absent-value markers), num, ts (a    *)
(*                Timestamp), and the Python strings s_empty, s_num,       *)
(*                s_word, s_date, s_datetime holding the text of that kind *)
(* d is the day (days since Monday 2024-01-01), the number or the word; t  *)
(* is the time of day (0 is midnight).                                     *)
(***************************************************************************)
EXTENDS Integers, Sequences, FiniteSets, TLC

VARIABLES
    strict_format,   \* the pandas build: TRUE when to_datetime parses a column
                     \* with the one format guessed from its first value
                     \* (pandas >= 2), FALSE when it parses value by value
    WORKOUTS_FILE,   \* contents of workouts.csv, or NoFile
    NUTRITION_FILE,  \* contents of nutrition.csv, or NoFile
    pc,              \* per session: "idle", "loaded", "done"
    page,            \* per session: the page branch the run took
    workouts_df,     \* per session: the run's workout table
    nutrition_df,    \* per session: the run's nutrition table
    new_row,         \* per session: the record submitted by a Log page
    workout_file,    \* per session: the workout upload, or NoFile
    nutrition_file,  \* per session: the nutrition upload, or NoFile
    selected_exercise, \* per session: the select box of Workout History
    view             \* per session: what the page computed to display

vars == <<strict_format, WORKOUTS_FILE, NUTRITION_FILE, pc, page, workouts_df,
          nutrition_df, new_row, workout_file, nutrition_file,
          selected_exercise, view>>

----------------------------------------------------------------------------
\* Bounds of the model.

\* Rows the two files hold together.
MaxRows == 2

\* Rows the two files hold together when entries are only logged.
MaxLogRows == 3

\* Rows the two files hold together while two sessions race.
MaxRaceRows == 1

\* Rows uploaded in one page run.
MaxUploadRows == 1

\* Concurrent browser sessions in the race specification.
Sessions == {1, 2}

----------------------------------------------------------------------------
\* Schemas (lines 39-40) and form defaults.

workout_cols == <<"date", "exercise", "sets", "reps", "weight", "notes">>

nutrition_cols == <<"date", "calories", "protein", "carbs", "fat", "sugar", "notes">>

metric_cols == <<"calories", "protein", "carbs", "fat", "sugar">>

DefaultSets == 3

DefaultReps == 10

----------------------------------------------------------------------------
\* Cells and values.

Cell(k, d, t) == [k |-> k, d |-> d, t |-> t]

NoFile == [header |-> <<>>, rows |-> <<>>, exists |-> FALSE]

CsvFile(header, rows) == [header |-> header, rows |-> rows, exists |-> TRUE]

DataFrame(columns, rows) == [cols |-> columns, rows |-> rows]

NoTable == DataFrame(<<>>, <<>>)

NoRow == <<>>

NoView == [kind |-> "none"]

None == Cell("None", 0, 0)

NaN == Cell("NaN", 0, 0)

NaT == Cell("NaT", 0, 0)

Num(n) == Cell("num", n, 0)

Timestamp(d, t) == Cell("ts", d, t)

IsAbsent(v) == v.k \in {"None", "NaN", "NaT"}

IsStr(v) == v.k \in {"s_empty", "s_num", "s_word", "s_date", "s_datetime"}

Range(s) == {s[i] : i \in DOMAIN s}

\* The text a Python string holds, as it is written to a CSV cell.
StrText(v) ==
    CASE v.k = "s_empty"    -> Cell("t_empty", 0, 0)
      [] v.k = "s_num"      -> Cell("t_num", v.d, 0)
      [] v.k = "s_word"     -> Cell("t_word", v.d, 0)
      [] v.k = "s_date"     -> Cell("t_date", v.d, 0)
      [] v.k = "s_datetime" -> Cell("t_datetime", v.d, v.t)

\* The Python string read from a non-empty CSV cell of an object column.
TextStr(c) ==
    CASE c.k = "t_num"      -> Cell("s_num", c.d, 0)
      [] c.k = "t_word"     -> Cell("s_word", c.d, 0)
      [] c.k = "t_date"     -> Cell("s_date", c.d, 0)
      [] c.k = "t_datetime" -> Cell("s_datetime", c.d, c.t)

\* A column as the sequence of its values.
Column(rows, c) == [i \in DOMAIN rows |-> rows[i][c]]

----------------------------------------------------------------------------
\* pandas: read_csv, to_csv, to_datetime, normalize, concat.

\* pd.read_csv: the header gives the columns; a column whose cells are all
\* numbers or empty is numeric (empty is NaN); any other column is an object
\* column holding each cell's text as a string (empty is NaN).
read_csv(f) ==
    LET numeric(c) == \A i \in DOMAIN f.rows : f.rows[i][c].k \in {"t_empty", "t_num"}
        value(c, x) ==
            IF x.k = "t_empty" THEN NaN
            ELSE IF numeric(c) THEN Num(x.d)
            ELSE TextStr(x)
    IN  DataFrame(f.header,
                  [i \in DOMAIN f.rows |->
                      [c \in Range(f.header) |-> value(c, f.rows[i][c])]])

\* df.to_csv(index=False): the header is the table's columns in order.  An
\* absent value is an empty cell.  A datetime64 column (timestamps and NaT
\* only) is written date-only when every time is midnight; a Timestamp in an
\* object column is written by str(), with its time.
to_csv(df) ==
    LET object(c) == \E i \in DOMAIN df.rows : IsStr(df.rows[i][c])
        midnight(c) == \A i \in DOMAIN df.rows :
                           df.rows[i][c].k = "ts" => df.rows[i][c].t = 0
        text(c, v) ==
            CASE IsAbsent(v) -> Cell("t_empty", 0, 0)
              [] v.k = "num" -> Cell("t_num", v.d, 0)
              [] v.k = "ts"  -> IF ~object(c) /\ midnight(c)
                                THEN Cell("t_date", v.d, 0)
                                ELSE Cell("t_datetime", v.d, v.t)
              [] OTHER       -> StrText(v)
    IN  CsvFile(df.cols,
                [i \in DOMAIN df.rows |->
                    [c \in Range(df.cols) |-> text(c, df.rows[i][c])]])

\* The format to_datetime guesses from the first non-null value of a column
\* of strings: "none" when that value is no date text.
GuessedFormat(col) ==
    LET present == {i \in DOMAIN col : ~IsAbsent(col[i])}
    IN  IF present = {} THEN "none"
        ELSE LET first == CHOOSE i \in present : \A j \in present : i <= j
             IN  IF col[first].k \in {"s_date", "s_datetime"}
                 THEN col[first].k ELSE "none"

\* pd.to_datetime(col, errors='coerce', infer_datetime_format=True): a date
\* text becomes its Timestamp and anything else NaT.  A build that parses
\* with one guessed format coerces a date text of another format to NaT; with
\* no format guessed every value is parsed on its own.
to_datetime(col) ==
    LET fmt == GuessedFormat(col)
        parse(v) ==
            IF v.k \in {"s_date", "s_datetime"}
            THEN IF strict_format /\ fmt # "none" /\ v.k # fmt
                 THEN NaT
                 ELSE Timestamp(v.d, v.t)
            ELSE IF v.k = "ts" THEN v
            ELSE NaT
    IN  [i \in DOMAIN col |-> parse(col[i])]

\* Series.dt.normalize(): the time of day is dropped.
normalize(col) ==
    [i \in DOMAIN col |-> IF col[i].k = "ts" THEN Timestamp(col[i].d, 0) ELSE col[i]]

\* A concatenation that puts the rows of b first.
concat_prepend(a, b) ==
    LET cols == a.cols \o SelectSeq(b.cols, LAMBDA c : c \notin Range(a.cols))
        widen(df, r) == [c \in Range(cols) |->
                            IF c \in Range(df.cols) THEN r[c] ELSE NaN]
    IN  DataFrame(cols,
                  [i \in DOMAIN b.rows |-> widen(b, b.rows[i])] \o
                  [i \in DOMAIN a.rows |-> widen(a, a.rows[i])])

\* pd.concat([a, b], ignore_index=True): the rows of b follow the rows of a;
\* the columns are those of a, then those of b that a lacks; a value a frame
\* lacks is NaN.
concat(a, b) ==
    LET cols == a.cols \o SelectSeq(b.cols, LAMBDA c : c \notin Range(a.cols))
        widen(df, r) == [c \in Range(cols) |->
                            IF c \in Range(df.cols) THEN r[c] ELSE NaN]
    IN  DataFrame(cols,
                  [i \in DOMAIN a.rows |-> widen(a, a.rows[i])] \o
                  [i \in DOMAIN b.rows |-> widen(b, b.rows[i])])

\* df[columns]: the named columns, in the order named.
project(df, columns) ==
    DataFrame(columns,
              [i \in DOMAIN df.rows |-> [c \in Range(columns) |-> df.rows[i][c]]])

\* for col in columns: if col not in df.columns: df[col] = None
backfill(df, columns) ==
    LET missing == SelectSeq(columns, LAMBDA c : c \notin Range(df.cols))
    IN  DataFrame(df.cols \o missing,
                  [i \in DOMAIN df.rows |->
                      [c \in Range(df.cols) \cup Range(missing) |->
                          IF c \in Range(df.cols) THEN df.rows[i][c] ELSE None]])

\* df.empty: no rows or no columns.
empty(df) == Len(df.rows) = 0 \/ Len(df.cols) = 0

----------------------------------------------------------------------------
\* Utilities (lines 14-35).

\* A load without the final df[columns]: the file's other columns stay.
load_csv_unprojected(path, columns) ==
    IF path.exists
    THEN backfill(read_csv(path), columns)
    ELSE DataFrame(columns, <<>>)

\* A load that answers a missing file with pd.DataFrame(), a table without
\* columns.
load_csv_no_columns(path, columns) ==
    IF path.exists
    THEN project(backfill(read_csv(path), columns), columns)
    ELSE DataFrame(<<>>, <<>>)

load_csv(path, columns) ==
    IF path.exists
    THEN project(backfill(read_csv(path), columns), columns)
    ELSE DataFrame(columns, <<>>)

\* A save that opens the file for appending (mode="a"): the last row of the
\* table is written after what the file holds.
save_csv_append(df, path) ==
    IF ~path.exists \/ Len(df.rows) = 0 THEN to_csv(df)
    ELSE [to_csv(df) EXCEPT !.rows = path.rows \o <<to_csv(df).rows[Len(df.rows)]>>]

\* df.to_csv(path, index=False) replaces whatever the path held.
save_csv(df, path) == to_csv(df)

ensure_date_col(df, col) ==
    IF empty(df) THEN df
    ELSE LET dates == normalize(to_datetime(Column(df.rows, col)))
         IN  DataFrame(df.cols,
                       [i \in DOMAIN df.rows |-> [df.rows[i] EXCEPT ![col] = dates[i]]])

----------------------------------------------------------------------------
\* What the collaborators supply: the form fields and the files found on disk
\* when the application is first started.

\* st.date_input: Mon 2024-01-08, Thu 2024-02-01.
InputDays == {7, 31}

\* st.text_input("Exercise"): left empty, or "Bench".
ExerciseInputs == {Cell("s_empty", 0, 0), Cell("s_word", 1, 0)}

\* st.number_input("Weight (lbs)", min_value=0.0).
WeightInputs == {0, 135}

\* st.number_input("Calories", min_value=0).
CalorieInputs == {2000, 2200}

\* A workouts.csv written by another tool: no exercise, sets, reps or notes,
\* a column the schema lacks, a date with a time of day.
LegacyWorkoutFile ==
    CsvFile(<<"weight", "date", "source">>,
            <<[weight |-> Cell("t_num", 135, 0),
               date   |-> Cell("t_datetime", 0, 1),
               source |-> Cell("t_word", 0, 0)]>>)

\* A nutrition.csv written by another tool.
LegacyNutritionFile ==
    CsvFile(<<"calories", "meal", "date">>,
            <<[calories |-> Cell("t_num", 1800, 0),
               meal     |-> Cell("t_word", 0, 0),
               date     |-> Cell("t_date", 28, 0)]>>)

----------------------------------------------------------------------------
\* The state before any page run.

Nowhere == [s \in Sessions |-> "none"]

Init ==
    /\ strict_format \in BOOLEAN
    /\ WORKOUTS_FILE \in {NoFile, LegacyWorkoutFile}
    /\ NUTRITION_FILE \in {NoFile, LegacyNutritionFile}
    /\ pc = [s \in Sessions |-> "idle"]
    /\ page = Nowhere
    /\ workouts_df = [s \in Sessions |-> NoTable]
    /\ nutrition_df = [s \in Sessions |-> NoTable]
    /\ new_row = [s \in Sessions |-> NoRow]
    /\ workout_file = [s \in Sessions |-> NoFile]
    /\ nutrition_file = [s \in Sessions |-> NoFile]
    /\ selected_exercise = [s \in Sessions |-> None]
    /\ view = [s \in Sessions |-> NoView]

\* Lines 42-46: both files are loaded and their date columns normalised.
Load(s) ==
    /\ pc[s] = "idle"
    /\ workouts_df' = [workouts_df EXCEPT ![s] =
           ensure_date_col(load_csv(WORKOUTS_FILE, workout_cols), "date")]
    /\ nutrition_df' = [nutrition_df EXCEPT ![s] =
           ensure_date_col(load_csv(NUTRITION_FILE, nutrition_cols), "date")]
    /\ pc' = [pc EXCEPT ![s] = "loaded"]
    /\ UNCHANGED <<strict_format, WORKOUTS_FILE, NUTRITION_FILE, page, new_row,
                   workout_file, nutrition_file, selected_exercise, view>>

\* The script ends: the run's tables and widgets' results are discarded.
Finish(s) ==
    /\ pc[s] = "done"
    /\ pc' = [pc EXCEPT ![s] = "idle"]
    /\ page' = [page EXCEPT ![s] = "none"]
    /\ workouts_df' = [workouts_df EXCEPT ![s] = NoTable]
    /\ nutrition_df' = [nutrition_df EXCEPT ![s] = NoTable]
    /\ new_row' = [new_row EXCEPT ![s] = NoRow]
    /\ workout_file' = [workout_file EXCEPT ![s] = NoFile]
    /\ nutrition_file' = [nutrition_file EXCEPT ![s] = NoFile]
    /\ selected_exercise' = [selected_exercise EXCEPT ![s] = None]
    /\ view' = [view EXCEPT ![s] = NoView]
    /\ UNCHANGED <<strict_format, WORKOUTS_FILE, NUTRITION_FILE>>

\* df.sort_values("date", ascending=False) compares the present dates with
\* one another: a Timestamp and a string do not compare (TypeError).
Sortable(df) ==
    ~ \E i, j \in DOMAIN df.rows :
          df.rows[i]["date"].k = "ts" /\ IsStr(df.rows[j]["date"])

\* "Recent ... Entries" (lines 93-97, 174-178).
RecentView(df) ==
    IF empty(df) THEN [kind |-> "info"]
    ELSE IF Sortable(df) THEN [kind |-> "recent"]
    ELSE [kind |-> "error"]

\* Lines 65-97, the button pressed: the record is appended and the table saved.
LogWorkout(s, cap) ==
    /\ pc[s] = "loaded"
    /\ Len(workouts_df[s].rows) + Len(NUTRITION_FILE.rows) < cap
    /\ \E w_date \in InputDays, exercise \in ExerciseInputs, weight \in WeightInputs :
          LET row == [date     |-> Cell("s_date", w_date, 0),
                      exercise |-> exercise,
                      sets     |-> Num(DefaultSets),
                      reps     |-> Num(DefaultReps),
                      weight   |-> Num(weight),
                      notes    |-> Cell("s_empty", 0, 0)]
              df == concat(workouts_df[s], DataFrame(workout_cols, <<row>>))
          IN  /\ new_row' = [new_row EXCEPT ![s] = row]
              /\ workouts_df' = [workouts_df EXCEPT ![s] = df]
              /\ WORKOUTS_FILE' = save_csv(df, WORKOUTS_FILE)
              /\ view' = [view EXCEPT ![s] = RecentView(df)]
    /\ pc' = [pc EXCEPT ![s] = "done"]
    /\ page' = [page EXCEPT ![s] = "Log Workout"]
    /\ UNCHANGED <<strict_format, NUTRITION_FILE, nutrition_df, workout_file,
                   nutrition_file, selected_exercise>>

\* Lines 143-178, the button pressed.
LogNutrition(s, cap) ==
    /\ pc[s] = "loaded"
    /\ Len(nutrition_df[s].rows) + Len(WORKOUTS_FILE.rows) < cap
    /\ \E n_date \in InputDays, calories \in CalorieInputs :
          LET row == [date     |-> Cell("s_date", n_date, 0),
                      calories |-> Num(calories),
                      protein  |-> Num(0),
                      carbs    |-> Num(0),
                      fat      |-> Num(0),
                      sugar    |-> Num(0),
                      notes    |-> Cell("s_empty", 0, 0)]
              df == concat(nutrition_df[s], DataFrame(nutrition_cols, <<row>>))
          IN  /\ new_row' = [new_row EXCEPT ![s] = row]
              /\ nutrition_df' = [nutrition_df EXCEPT ![s] = df]
              /\ NUTRITION_FILE' = save_csv(df, NUTRITION_FILE)
              /\ view' = [view EXCEPT ![s] = RecentView(df)]
    /\ pc' = [pc EXCEPT ![s] = "done"]
    /\ page' = [page EXCEPT ![s] = "Log Nutrition"]
    /\ UNCHANGED <<strict_format, WORKOUTS_FILE, workouts_df, workout_file,
                   nutrition_file, selected_exercise>>

----------------------------------------------------------------------------
\* Sorting and the calendar.

\* Whether row j comes before row i under df.sort_values("date"): by date
\* ascending, an absent date after every present one, equal dates in their
\* order in the table.
Before(rows, j, i) ==
    LET a == rows[j]["date"]
        b == rows[i]["date"]
    IN  \/ ~IsAbsent(a) /\ IsAbsent(b)
        \/ ~IsAbsent(a) /\ ~IsAbsent(b) /\ a.d < b.d
        \/ IsAbsent(a) = IsAbsent(b) /\ (IsAbsent(a) \/ a.d = b.d) /\ j < i

\* sort_values("date")
sort_values(rows) ==
    LET rank(i) == Cardinality({j \in DOMAIN rows : Before(rows, j, i)}) + 1
    IN  [r \in DOMAIN rows |-> rows[CHOOSE i \in DOMAIN rows : rank(i) = r]]

\* Whether row j comes before row i under sort_values("date", ascending=False):
\* by date descending, an absent date still last.
BeforeDescending(rows, j, i) ==
    LET a == rows[j]["date"]
        b == rows[i]["date"]
    IN  \/ ~IsAbsent(a) /\ IsAbsent(b)
        \/ ~IsAbsent(a) /\ ~IsAbsent(b) /\ a.d > b.d
        \/ IsAbsent(a) = IsAbsent(b) /\ (IsAbsent(a) \/ a.d = b.d) /\ j < i

\* sort_values("date", ascending=False)
sort_values_descending(rows) ==
    LET rank(i) == Cardinality({j \in DOMAIN rows : BeforeDescending(rows, j, i)}) + 1
    IN  [r \in DOMAIN rows |-> rows[CHOOSE i \in DOMAIN rows : rank(i) = r]]

\* The days of the months of 2024.
MonthLengths == <<31, 29, 31, 30, 31, 30, 31, 31, 30, 31, 30, 31>>

RECURSIVE MonthStartFrom(_, _, _)
MonthStartFrom(d, m, start) ==
    IF m = Len(MonthLengths) \/ d < start + MonthLengths[m] THEN start
    ELSE MonthStartFrom(d, m + 1, start + MonthLengths[m])

\* dt.to_period("M") ... start_time: the first day of the day's month.
MonthStart(d) == MonthStartFrom(d, 1, 0)

\* dt.to_period("W") ... start_time: the Monday of the day's week (the weekly
\* period ends on Sunday); day 0 is a Monday.
WeekStart(d) == d - (d % 7)

RECURSIVE Sum(_)
Sum(s) == IF Len(s) = 0 THEN 0 ELSE Head(s) + Sum(Tail(s))

\* n / m rounded to an integer, halves to the even neighbour (numpy's round).
RoundHalfEven(n, m) ==
    LET q == n \div m
        r == n % m
    IN  IF 2 * r > m THEN q + 1
        ELSE IF 2 * r < m THEN q
        ELSE q + (q % 2)

\* .mean().round(1) of a group's values, in tenths: absent values are left
\* out, and the mean of none is NaN.
MeanRounded(values) ==
    LET present == SelectSeq(values, LAMBDA v : v.k = "num")
    IN  IF Len(present) = 0 THEN NaN
        ELSE Cell("tenths",
                  RoundHalfEven(10 * Sum([i \in DOMAIN present |-> present[i].d]),
                                Len(present)),
                  0)

----------------------------------------------------------------------------
\* Workout History (lines 101-139).

\* sorted(workouts_df["exercise"].dropna().unique())
Exercises(df) == {df.rows[i]["exercise"] : i \in DOMAIN df.rows} \ {None, NaN, NaT}

\* filtered.dropna(subset=["weight"])
dropna_weight(rows) == SelectSeq(rows, LAMBDA r : ~IsAbsent(r["weight"]))

\* Lines 130-139: the statistics of the rows that have a weight.  Subtracting
\* two strings raises TypeError.  pct is the fraction num / den.
Stats(plot_df) ==
    LET start_weight == plot_df[1]["weight"]
        current_weight == plot_df[Len(plot_df)]["weight"]
        change == current_weight.d - start_weight.d
    IN  IF start_weight.k # "num" \/ current_weight.k # "num"
        THEN [kind |-> "error"]
        ELSE [kind    |-> "progress",
              start   |-> start_weight.d,
              current |-> current_weight.d,
              change  |-> change,
              pct     |-> IF start_weight.d # 0
                          THEN [num |-> change * 100, den |-> start_weight.d]
                          ELSE [num |-> 0, den |-> 1]]

\* The page for one choice of the select box (None when it has no options;
\* no value of a column equals None).
Progress(df, selected) ==
    IF empty(df) THEN [kind |-> "info"]
    ELSE LET filtered == sort_values(
                 SelectSeq(df.rows, LAMBDA r : ~IsAbsent(selected)
                                               /\ r["exercise"] = selected))
             plot_df == dropna_weight(filtered)
         IN  IF Len(filtered) = 0 THEN [kind |-> "warning"]
             ELSE IF Len(plot_df) = 0 THEN [kind |-> "no_weights"]
             ELSE Stats(plot_df)

WorkoutHistory(s) ==
    /\ pc[s] = "loaded"
    /\ \E selected \in
              IF Exercises(workouts_df[s]) = {} THEN {None}
              ELSE Exercises(workouts_df[s]) :
          /\ selected_exercise' = [selected_exercise EXCEPT ![s] = selected]
          /\ view' = [view EXCEPT ![s] = Progress(workouts_df[s], selected)]
    /\ pc' = [pc EXCEPT ![s] = "done"]
    /\ page' = [page EXCEPT ![s] = "Workout History"]
    /\ UNCHANGED <<strict_format, WORKOUTS_FILE, NUTRITION_FILE, workouts_df,
                   nutrition_df, new_row, workout_file, nutrition_file>>

----------------------------------------------------------------------------
\* Nutrition Summary (lines 182-220).

\* dt.to_period(unit).apply(lambda r: r.start_time) of a valid date: the
\* Monday of its week ("W") or the first day of its month ("M").
start_time(d, unit) == IF unit = "W" THEN WeekStart(d) ELSE MonthStart(d)

\* groupby(key)[metrics].mean().round(1).reset_index().sort_values(key,
\* ascending=False): one row per key that some row has, most recent first.
Averages(rows, unit) ==
    LET keys == {start_time(rows[i]["date"].d, unit) : i \in DOMAIN rows}
        group(k) == SelectSeq(rows, LAMBDA r : start_time(r["date"].d, unit) = k)
        bucket(k) == [period   |-> k,
                      calories |-> MeanRounded(Column(group(k), "calories")),
                      protein  |-> MeanRounded(Column(group(k), "protein")),
                      carbs    |-> MeanRounded(Column(group(k), "carbs")),
                      fat      |-> MeanRounded(Column(group(k), "fat")),
                      sugar    |-> MeanRounded(Column(group(k), "sugar"))]
        rank(k) == Cardinality({j \in keys : j > k}) + 1
    IN  [r \in 1..Cardinality(keys) |-> bucket(CHOOSE k \in keys : rank(k) = r)]

\* The page: the daily table is the rows themselves, most recent first; the
\* weekly and monthly tables are averages.  Line 197 applies
\* lambda r: r.start_time to every period of the column, NaT included, and NaT
\* has no start_time (AttributeError).
Summary(df) ==
    IF empty(df) THEN [kind |-> "info"]
    ELSE LET sorted == sort_values(df.rows)
         IN  IF \E i \in DOMAIN sorted : IsAbsent(sorted[i]["date"])
             THEN [kind |-> "error", daily |-> sort_values_descending(sorted)]
             ELSE [kind    |-> "summary",
                   daily   |-> sort_values_descending(sorted),
                   weekly  |-> Averages(sorted, "W"),
                   monthly |-> Averages(sorted, "M")]

NutritionSummary(s) ==
    /\ pc[s] = "loaded"
    /\ view' = [view EXCEPT ![s] = Summary(nutrition_df[s])]
    /\ pc' = [pc EXCEPT ![s] = "done"]
    /\ page' = [page EXCEPT ![s] = "Nutrition Summary"]
    /\ UNCHANGED <<strict_format, WORKOUTS_FILE, NUTRITION_FILE, workouts_df,
                   nutrition_df, new_row, workout_file, nutrition_file,
                   selected_exercise>>

----------------------------------------------------------------------------
\* Import / Export (lines 224-283).

\* The sequences of at most n elements of S.
SeqsUpTo(S, n) == UNION {[1..k -> S] : k \in 0..n}

\* What the rows of an uploaded workout file say: a date, a date with a
\* time of day, text that is no date with a weight that is no number.
WorkoutUploadShapes ==
    {[date |-> Cell("t_date", 28, 0),     exercise |-> Cell("t_word", 1, 0),
      weight |-> Cell("t_num", 155, 0)],
     [date |-> Cell("t_datetime", 29, 1), exercise |-> Cell("t_word", 2, 0),
      weight |-> Cell("t_num", 100, 0)],
     [date |-> Cell("t_word", 0, 0),      exercise |-> Cell("t_word", 1, 0),
      weight |-> Cell("t_num", 120, 0)],
     [date |-> Cell("t_date", 30, 0),     exercise |-> Cell("t_word", 1, 0),
      weight |-> Cell("t_word", 0, 0)]}

NutritionUploadShapes ==
    {[date |-> Cell("t_date", 13, 0),     calories |-> Cell("t_num", 1900, 0)],
     [date |-> Cell("t_datetime", 14, 1), calories |-> Cell("t_num", 2105, 0)],
     [date |-> Cell("t_word", 0, 0),      calories |-> Cell("t_empty", 0, 0)]}

\* The row of a file with the given header that says what the shape says:
\* the other numeric columns hold a number, a column the schema lacks holds
\* text, notes are empty.
UploadRow(header, shape) ==
    [c \in Range(header) |->
        IF c \in DOMAIN shape THEN shape[c]
        ELSE IF c \in {"sets", "reps", "protein", "carbs", "fat", "sugar"}
             THEN Cell("t_num", 5, 0)
        ELSE IF c \in {"source", "meal"} THEN Cell("t_word", 0, 0)
        ELSE Cell("t_empty", 0, 0)]

\* The files of at most MaxUploadRows rows with one of the headers.
Uploads(headers, shapes) ==
    UNION {{CsvFile(h, rows) :
               rows \in SeqsUpTo({UploadRow(h, x) : x \in shapes}, MaxUploadRows)} :
              h \in headers}

\* The uploads offered to the workout uploader: a file of the schema, and a
\* file with no date, a column the schema lacks and the columns in another
\* order.
WorkoutUploads ==
    Uploads({workout_cols, <<"weight", "source", "exercise">>}, WorkoutUploadShapes)

NutritionUploads ==
    Uploads({nutrition_cols, <<"calories", "meal", "date">>}, NutritionUploadShapes)

\* An import that merges: the coerced upload is concatenated to the table of
\* the file on disk.
Coerce_merge(upload, columns) ==
    concat(ensure_date_col(load_csv(IF columns = workout_cols THEN WORKOUTS_FILE
                                    ELSE NUTRITION_FILE, columns), "date"),
           ensure_date_col(project(backfill(read_csv(upload), columns), columns), "date"))

\* Lines 236-241, 265-270: the upload is read, coerced to the schema and its
\* dates normalised.
Coerce(upload, columns) ==
    ensure_date_col(project(backfill(read_csv(upload), columns), columns), "date")

\* The page with what the two uploaders hold (NoFile: nothing uploaded).  An
\* uploaded table replaces the run's table and is saved over the file.  The
\* uploads hold at most MaxUploadRows rows together; when both uploaders hold
\* a file, both files have the schema's header.
ImportExport(s) ==
    /\ pc[s] = "loaded"
    /\ \E w \in {NoFile} \cup WorkoutUploads, n \in {NoFile} \cup NutritionUploads :
          /\ Len(w.rows) + Len(n.rows) <= MaxUploadRows
          /\ w.exists /\ n.exists => w.header = workout_cols /\ n.header = nutrition_cols
          /\ (IF w.exists THEN Len(w.rows) ELSE Len(WORKOUTS_FILE.rows))
               + (IF n.exists THEN Len(n.rows) ELSE Len(NUTRITION_FILE.rows)) <= MaxRows
          /\ workout_file' = [workout_file EXCEPT ![s] = w]
          /\ nutrition_file' = [nutrition_file EXCEPT ![s] = n]
          /\ IF w.exists
             THEN /\ workouts_df' = [workouts_df EXCEPT ![s] = Coerce(w, workout_cols)]
                  /\ WORKOUTS_FILE' = save_csv(Coerce(w, workout_cols), WORKOUTS_FILE)
             ELSE UNCHANGED <<workouts_df, WORKOUTS_FILE>>
          /\ IF n.exists
             THEN /\ nutrition_df' = [nutrition_df EXCEPT ![s] = Coerce(n, nutrition_cols)]
                  /\ NUTRITION_FILE' = save_csv(Coerce(n, nutrition_cols), NUTRITION_FILE)
             ELSE UNCHANGED <<nutrition_df, NUTRITION_FILE>>
    /\ view' = [view EXCEPT ![s] = [kind |-> "export"]]
    /\ pc' = [pc EXCEPT ![s] = "done"]
    /\ page' = [page EXCEPT ![s] = "Import / Export"]
    /\ UNCHANGED <<strict_format, new_row, selected_exercise>>

----------------------------------------------------------------------------
\* Specifications.

\* One page run of a session, step by step.
Run(s) ==
    \/ Load(s)
    \/ LogWorkout(s, MaxRows)
    \/ WorkoutHistory(s)
    \/ LogNutrition(s, MaxRows)
    \/ NutritionSummary(s)
    \/ ImportExport(s)
    \/ Finish(s)

\* One user: page runs follow one another.
Next == Run(1)

Spec == Init /\ [][Next]_vars

\* One user who only logs entries and looks at the pages: no import.
NextLog ==
    \/ Load(1)
    \/ LogWorkout(1, MaxLogRows)
    \/ WorkoutHistory(1)
    \/ LogNutrition(1, MaxLogRows)
    \/ NutritionSummary(1)
    \/ Finish(1)

SpecLog == Init /\ [][NextLog]_vars

\* Two sessions logging workouts at the same time: their loads and saves
\* interleave.
NextRace == \E s \in Sessions : Load(s) \/ LogWorkout(s, MaxRaceRows) \/ Finish(s)

SpecRace == Init /\ [][NextRace]_vars

----------------------------------------------------------------------------
\* Properties.

\* The table has exactly the columns, in order, in every row.
HasSchema(df, columns) ==
    /\ df.cols = columns
    /\ \A i \in DOMAIN df.rows : DOMAIN df.rows[i] = Range(columns)

\* The file has exactly the columns, in order, in every row.
FileHasSchema(f, columns) ==
    /\ f.exists
    /\ f.header = columns
    /\ \A i \in DOMAIN f.rows : DOMAIN f.rows[i] = Range(columns)

\* The CSV cell x is the written form of the value v.
Denotes(x, v) ==
    CASE IsAbsent(v)   -> x.k = "t_empty"
      [] v.k = "num"   -> x = Cell("t_num", v.d, 0)
      [] v.k = "ts"    -> /\ x.d = v.d
                          /\ \/ x.k = "t_date" /\ v.t = 0
                             \/ x.k = "t_datetime" /\ x.t = v.t
      [] OTHER         -> x = StrText(v)

\* The file holds the rows of the table, in order, and nothing else.
FileHolds(f, df) ==
    /\ f.exists
    /\ f.header = df.cols
    /\ Len(f.rows) = Len(df.rows)
    /\ \A i \in DOMAIN df.rows : \A c \in Range(df.cols) :
           Denotes(f.rows[i][c], df.rows[i][c])

\* Session s takes the load step.
Loads(s) == pc[s] = "idle" /\ pc'[s] = "loaded"

\* Session s takes the step of the page p.
Takes(s, p) == pc[s] = "loaded" /\ pc'[s] = "done" /\ page'[s] = p

\* The columns of the schema the source file lacks are absent in every row
\* of the table made from it.
Backfilled(source, df, columns) ==
    \A c \in Range(columns) \ Range(source.header) :
        \A i \in DOMAIN df.rows : IsAbsent(df.rows[i][c])

\* C1: after every load, append and import the run's tables have exactly the
\* schema's columns in schema order, and so has a file whenever it is written;
\* a column the loaded file or the upload lacks is absent in every row; a
\* column outside the schema is gone.
C1_SchemaColumns ==
    [][\A s \in Sessions :
         /\ pc'[s] # "idle" =>
               /\ HasSchema(workouts_df'[s], workout_cols)
               /\ HasSchema(nutrition_df'[s], nutrition_cols)
         /\ WORKOUTS_FILE' # WORKOUTS_FILE => FileHasSchema(WORKOUTS_FILE', workout_cols)
         /\ NUTRITION_FILE' # NUTRITION_FILE =>
               FileHasSchema(NUTRITION_FILE', nutrition_cols)
         /\ Loads(s) =>
               /\ Backfilled(WORKOUTS_FILE, workouts_df'[s], workout_cols)
               /\ Backfilled(NUTRITION_FILE, nutrition_df'[s], nutrition_cols)
         /\ Takes(s, "Import / Export") /\ workout_file'[s].exists =>
               Backfilled(workout_file'[s], workouts_df'[s], workout_cols)
         /\ Takes(s, "Import / Export") /\ nutrition_file'[s].exists =>
               Backfilled(nutrition_file'[s], nutrition_df'[s], nutrition_cols)
      ]_vars

\* C1 witness: an upload without a date column and with a column the schema
\* lacks has been imported and saved.
C1_Witness ==
    /\ pc[1] = "done" /\ page[1] = "Import / Export"
    /\ workout_file[1].exists
    /\ workout_file[1].header = <<"weight", "source", "exercise">>
    /\ Len(workouts_df[1].rows) = 1
    /\ WORKOUTS_FILE.header = workout_cols
    /\ WORKOUTS_FILE.rows[1]["date"].k = "t_empty"

\* The step appended the record to the table: the rows the run loaded, in
\* their order, then the record; the file holds exactly those rows.
Appended(before, after, row, f) ==
    /\ Len(after.rows) = Len(before.rows) + 1
    /\ \A i \in DOMAIN before.rows : after.rows[i] = before.rows[i]
    /\ after.rows[Len(after.rows)] = row
    /\ FileHolds(f, after)

\* C2: an append leaves the table, and the saved file, with the rows that
\* were loaded, in the same order, followed by the submitted record.
C2_AppendKeepsOrder ==
    [][\A s \in Sessions :
         /\ Takes(s, "Log Workout") =>
               Appended(workouts_df[s], workouts_df'[s], new_row'[s], WORKOUTS_FILE')
         /\ Takes(s, "Log Nutrition") =>
               Appended(nutrition_df[s], nutrition_df'[s], new_row'[s], NUTRITION_FILE')
      ]_vars

\* C2 witness: a record was appended to a table that already had a row.
C2_Witness ==
    /\ pc[1] = "done" /\ page[1] = "Log Workout"
    /\ Len(workouts_df[1].rows) = 2
    /\ workouts_df[1].rows[2] = new_row[1]
    /\ workouts_df[1].rows[1] # new_row[1]
    /\ Len(WORKOUTS_FILE.rows) = 2

\* The table and the file are the upload coerced to the schema with its dates
\* normalised, row for row: a column the upload has keeps its cells, the date
\* becomes the day of a date text (or absent), a column it lacks is absent.
Imported(upload, df, f, columns) ==
    /\ Len(df.rows) = Len(upload.rows)
    /\ FileHolds(f, df)
    /\ \A i \in DOMAIN upload.rows : \A c \in Range(columns) :
          IF c \notin Range(upload.header) THEN IsAbsent(df.rows[i][c])
          ELSE IF c # "date"
               THEN /\ f.rows[i][c] = upload.rows[i][c]
                    /\ Denotes(upload.rows[i][c], df.rows[i][c])
          ELSE IF upload.rows[i][c].k \in {"t_date", "t_datetime"}
               THEN /\ df.rows[i][c] \in {NaT, Timestamp(upload.rows[i][c].d, 0)}
                    /\ ~strict_format => df.rows[i][c] # NaT
          ELSE df.rows[i][c] = NaT

C4_LastSaveWins ==
    [][\A s, o \in Sessions :
         ( /\ s # o
           /\ pc[o] = "done" /\ page[o] = "Log Workout"
           /\ FileHolds(WORKOUTS_FILE, workouts_df[o])
           /\ Len(workouts_df[s].rows) < Len(workouts_df[o].rows)
           /\ Takes(s, "Log Workout") )
         => /\ FileHolds(WORKOUTS_FILE', workouts_df'[s])
            /\ Len(WORKOUTS_FILE'.rows) = Len(workouts_df[s].rows) + 1
            /\ Len(WORKOUTS_FILE'.rows) <= Len(WORKOUTS_FILE.rows)
      ]_vars

\* C4 witness: two sessions loaded the empty table and each appended a
\* different record; the file holds the second session's table only.
C4_Witness ==
    /\ pc[1] = "done" /\ page[1] = "Log Workout"
    /\ pc[2] = "done" /\ page[2] = "Log Workout"
    /\ Len(workouts_df[1].rows) = 1 /\ Len(workouts_df[2].rows) = 1
    /\ new_row[1] # new_row[2]
    /\ FileHolds(WORKOUTS_FILE, workouts_df[2])
    /\ ~FileHolds(WORKOUTS_FILE, workouts_df[1])

\* C5: in every run's tables every date is a normalised calendar date (a
\* timestamp at midnight) or absent.
C5_DatesNormalized ==
    \A s \in Sessions : pc[s] # "idle" =>
        \A df \in {workouts_df[s], nutrition_df[s]} : \A i \in DOMAIN df.rows :
            \/ IsAbsent(df.rows[i]["date"])
            \/ df.rows[i]["date"].k = "ts" /\ df.rows[i]["date"].t = 0

\* What a cell of a file says: a date written with the time 00:00:00 says
\* the same as the date alone.
Says(x) == IF x.k = "t_datetime" /\ x.t = 0 THEN Cell("t_date", x.d, 0) ELSE x

\* Every record of a file the application wrote is still there, at its place
\* and saying the same in every column, after the step.
Kept(f, g, columns) ==
    FileHasSchema(f, columns) =>
        \A i \in DOMAIN f.rows :
            /\ i \in DOMAIN g.rows
            /\ \A c \in Range(columns) : Says(g.rows[i][c]) = Says(f.rows[i][c])

\* C6: without an import, a record written to a file stays in it with the
\* same value in every column.
C6_RecordsImmutable ==
    [][/\ Kept(WORKOUTS_FILE, WORKOUTS_FILE', workout_cols)
       /\ Kept(NUTRITION_FILE, NUTRITION_FILE', nutrition_cols)]_vars

\* C7: loading a file that does not exist gives the table of the schema's
\* columns with no rows, and leaves the file absent.
C7_MissingFile ==
    [][\A s \in Sessions : Loads(s) =>
         /\ ~WORKOUTS_FILE.exists =>
               /\ workouts_df'[s] = DataFrame(workout_cols, <<>>)
               /\ ~WORKOUTS_FILE'.exists
         /\ ~NUTRITION_FILE.exists =>
               /\ nutrition_df'[s] = DataFrame(nutrition_cols, <<>>)
               /\ ~NUTRITION_FILE'.exists
      ]_vars

\* C7 witness: a run has loaded while neither file exists.
C7_Witness ==
    /\ pc[1] = "loaded"
    /\ ~WORKOUTS_FILE.exists /\ ~NUTRITION_FILE.exists
    /\ workouts_df[1].cols = workout_cols /\ Len(workouts_df[1].rows) = 0
    /\ nutrition_df[1].cols = nutrition_cols /\ Len(nutrition_df[1].rows) = 0

\* The rows of the selected exercise that have a weight.
Remaining(s) ==
    {i \in DOMAIN workouts_df[s].rows :
        /\ ~IsAbsent(selected_exercise[s])
        /\ workouts_df[s].rows[i]["exercise"] = selected_exercise[s]
        /\ ~IsAbsent(workouts_df[s].rows[i]["weight"])}

\* C8: the progress analysis never fails; with no row of the exercise that
\* has a weight it reports that there is no data; otherwise start is the
\* weight of the earliest-dated such row, current that of the latest-dated,
\* delta their difference and pct_change delta / start * 100, or 0 when
\* start is 0.
C8_ProgressDefined ==
    \A s \in Sessions : pc[s] = "done" /\ page[s] = "Workout History" =>
        LET rows == workouts_df[s].rows
            dated == {i \in Remaining(s) : ~IsAbsent(rows[i]["date"])}
            earliest == {i \in dated : \A j \in dated : rows[i]["date"].d <= rows[j]["date"].d}
            latest == {i \in dated : \A j \in dated : rows[i]["date"].d >= rows[j]["date"].d}
            v == view[s]
        IN  /\ v.kind # "error"
            /\ Remaining(s) = {} => v.kind \in {"info", "warning", "no_weights"}
            /\ Remaining(s) # {} =>
                  /\ v.kind = "progress"
                  /\ dated # {} =>
                        /\ v.start \in {rows[i]["weight"].d : i \in earliest}
                        /\ v.current \in {rows[i]["weight"].d : i \in latest}
                  /\ v.change = v.current - v.start
                  /\ IF v.start = 0 THEN v.pct.num = 0
                     ELSE v.pct.num * v.start = v.change * 100 * v.pct.den

\* The value of a daily row and a rounded mean (in tenths) are the same
\* number, or both absent.
SameNumber(v, mean) ==
    \/ IsAbsent(v) /\ IsAbsent(mean)
    \/ v.k = "num" /\ mean.k = "tenths" /\ 10 * v.d = mean.d

\* C9: the daily output has one bucket per distinct valid date of the
\* nutrition table, carrying the mean of each metric over the rows of that
\* date.
C9_DailyBuckets ==
    \A s \in Sessions :
        pc[s] = "done" /\ page[s] = "Nutrition Summary" /\ ~empty(nutrition_df[s]) =>
            LET rows == nutrition_df[s].rows
                valid == {rows[i]["date"] : i \in DOMAIN rows} \ {None, NaN, NaT}
                daily == view[s].daily
                on(d) == SelectSeq(rows, LAMBDA r : r["date"] = d)
            IN  /\ Len(daily) = Cardinality(valid)
                /\ {daily[j]["date"] : j \in DOMAIN daily} = valid
                /\ \A j \in DOMAIN daily : \A m \in Range(metric_cols) :
                       SameNumber(daily[j][m],
                                  MeanRounded(Column(on(daily[j]["date"]), m)))

\* The first days of the months of 2024.
MonthStarts == {0, 31, 60, 91, 121, 152, 182, 213, 244, 274, 305, 335}

\* The first day of the month of day d.
FirstOfMonth(d) == CHOOSE m \in MonthStarts : m <= d /\ \A n \in MonthStarts : n <= d => n <= m

\* The Monday on or before day d.
Monday(d) == CHOOSE m \in (d - 6)..d : m % 7 = 0

\* The buckets are those of the rows with a valid date under the key: each
\* such row is in exactly one bucket, that of its key; a bucket has a row;
\* the calories of a bucket are the mean over its rows; the buckets are in
\* strictly descending order.
Bucketed(out, rows, unit) ==
    LET Key(d) == IF unit = "W" THEN Monday(d) ELSE FirstOfMonth(d)
        valid == {i \in DOMAIN rows : ~IsAbsent(rows[i]["date"])}
        in(j) == {i \in valid : Key(rows[i]["date"].d) = out[j].period}
    IN  /\ \A i \in valid :
              Cardinality({j \in DOMAIN out : out[j].period = Key(rows[i]["date"].d)}) = 1
        /\ \A j \in DOMAIN out : in(j) # {}
        /\ \A j \in DOMAIN out :
              out[j].calories =
                  MeanRounded(Column(SelectSeq(rows,
                      LAMBDA r : ~IsAbsent(r["date"]) /\ Key(r["date"].d) = out[j].period),
                      "calories"))
        /\ \A j, k \in DOMAIN out : j < k => out[j].period > out[k].period

\* C10: for a non-empty nutrition table the weekly and the monthly output
\* bucket every row with a valid date once, by the Monday of its week and by
\* the first day of its month; rows without a date are in no bucket; no
\* bucket is empty; the buckets are in strictly descending order.
C10_WeeklyMonthlyBuckets ==
    \A s \in Sessions :
        pc[s] = "done" /\ page[s] = "Nutrition Summary" /\ ~empty(nutrition_df[s]) =>
            /\ view[s].kind = "summary"
            /\ Bucketed(view[s].weekly, nutrition_df[s].rows, "W")
            /\ Bucketed(view[s].monthly, nutrition_df[s].rows, "M")

====
